---- MODULE Spec2Model ----
(***************************************************************************)
(* Lejebolig Find: the message store (shared/schema.ts, server/storage.ts), *)
(* the message routes (server/routes.ts in its two versions), the socket    *)
(* handlers (server/websocket.ts) and the conversation projections (server  *)
(* getUserConversations / getConversationMessages, client chat grouping).   *)
(***************************************************************************)
EXTENDS Integers, Sequences, FiniteSets, TLC

(* ---------------------------------------------------------------------- *)
(* Bounds of the model                                                      *)
(* ---------------------------------------------------------------------- *)
NumUsers == 2
MaxMsgs == 2
MaxExtra == 1
NumSockets == 1
NumRequests == 3

Users == 1..NumUsers
Listings == {1, 2}
Contents == {"hi"}
Sockets == 1..NumSockets
Requests == 1..NumRequests

(* limit = 50: the default page size of getConversationMessages *)
DefaultLimit == 50

(* the database returns rows of equal sent_at in an order of its choosing;  *)
(* the model lets it choose between ascending and descending id             *)
TieOrders == {"asc", "desc"}

VARIABLES
  users,        \* ids of the rows of table users
  properties,   \* rows of table properties: [id, userId]
  messages,     \* rows of table messages
  nextMsgId,    \* the serial of messages.id
  now,          \* the database clock (defaultNow)
  resp,         \* HTTP status of the last request, 0 before any
  userSessions, \* websocket.ts userSessions: socket id -> user id, 0 when absent
  rooms,        \* socket.io rooms: socket id -> the users u whose room user_u it is in
  chatMessages, \* chat page: user -> the data of the last GET /api/messages poll
  deleting,     \* deleteProperty calls between their two statements: [id, userId]
  regs,         \* POST /api/auth/register requests: request -> [pc, email, userId]
  emails        \* column users.email: user id -> email

otherVars == <<chatMessages, deleting, regs, emails>>

vars == <<users, properties, messages, nextMsgId, now, resp, userSessions, rooms,
          otherVars>>

Min(a, b) == IF a <= b THEN a ELSE b
Max(a, b) == IF a >= b THEN a ELSE b

(* ---------------------------------------------------------------------- *)
(* shared/schema.ts                                                         *)
(* ---------------------------------------------------------------------- *)
(* messages: read defaults to false, createdAt to now() *)
MessageRow(id, data, t) ==
  [id |-> id, propertyId |-> data.propertyId, senderId |-> data.senderId,
   receiverId |-> data.receiverId, content |-> data.content,
   read |-> FALSE, createdAt |-> t]

ForeignKeysHoldSenderOnly(data) ==
  data.senderId \in users

(* the foreign keys of messages: property_id, sender_id, receiver_id *)
ForeignKeysHold(data) ==
  /\ data.propertyId \in {p.id : p \in properties}
  /\ data.senderId \in users
  /\ data.receiverId \in users

(* ---------------------------------------------------------------------- *)
(* server/storage.ts                                                        *)
(* ---------------------------------------------------------------------- *)
createMessageResetsRead(ms, id, data, t) ==
  {[m EXCEPT !.read = FALSE] : m \in ms} \cup {MessageRow(id, data, t)}

(* createMessage: one insert; returns the table with the new row *)
createMessage(ms, id, data, t) == ms \cup {MessageRow(id, data, t)}

markMessageAsReadNoReceiverCheck(ms, messageId, userId) ==
  {IF m.id = messageId THEN [m EXCEPT !.read = TRUE] ELSE m : m \in ms}

markMessageAsReadToggle(ms, messageId, userId) ==
  {IF m.id = messageId /\ m.receiverId = userId
     THEN [m EXCEPT !.read = ~m.read] ELSE m : m \in ms}

(* markMessageAsRead: update ... set read = true where id = ? and receiver = ? *)
markMessageAsRead(ms, messageId, userId) ==
  {IF m.id = messageId /\ m.receiverId = userId
     THEN [m EXCEPT !.read = TRUE] ELSE m : m \in ms}

(* an optional field of a request: <<>> when the request leaves it out      *)
(* (undefined), <<v>> when it carries v                                     *)
None == <<>>
Optional(S) == {None} \cup {<<v>> : v \in S}

(* JavaScript truthiness of an optional number or string: undefined, 0 and  *)
(* "" are falsy                                                             *)
TruthyNumber(v) == v # None /\ v[1] # 0
TruthyString(v) == v # None /\ v[1] # ""

(* getProperties: available listings that meet the conditions pushed for    *)
(* the truthy fields of search                                              *)
getProperties(ps, search) ==
  {p \in ps :
     /\ p.available
     /\ p.userId \in users
     /\ TruthyString(search.type) => p.type = search.type[1]
     /\ TruthyNumber(search.minPrice) => p.price >= search.minPrice[1]
     /\ TruthyNumber(search.maxPrice) => p.price <= search.maxPrice[1]
     /\ TruthyNumber(search.minRooms) => p.rooms >= search.minRooms[1]
     /\ TruthyNumber(search.maxRooms) => p.rooms <= search.maxRooms[1]}

(* insertPropertySchema.partial().parse(body) and set({...property}): the   *)
(* fields of the schema that the body carries; userId is not in the schema  *)
(* and is stripped                                                          *)
ApplyUpdate(p, data) ==
  [p EXCEPT !.price = IF data.price # None THEN data.price[1] ELSE @,
            !.available = IF data.available # None THEN data.available[1] ELSE @]

(* updateProperty: update properties set ... where id = ? and user_id = ? *)
updateProperty(ps, id, data, userId) ==
  {IF p.id = id /\ p.userId = userId THEN ApplyUpdate(p, data) ELSE p : p \in ps}

(* deleteProperty, first statement: delete from messages where property_id = ? *)
deleteMessagesOf(ms, id) == {m \in ms : m.propertyId # id}

deletePropertyRowsAnyOwner(ps, id, userId) == {p \in ps : p.id # id}

(* deleteProperty, second statement: delete from properties where id = ?    *)
(* and user_id = ?                                                          *)
deletePropertyRows(ps, id, userId) ==
  {p \in ps : ~(p.id = id /\ p.userId = userId)}

(* server/storage.ts queries: ms is the messages table they read *)
(* the inner joins of the message queries on properties and users *)
Joined(ms) ==
  {m \in ms : /\ m.propertyId \in {p.id : p \in properties}
              /\ m.senderId \in users
              /\ m.receiverId \in users}

(* orderBy(createdAt) / orderBy(desc(createdAt)): a comes before b; rows of  *)
(* equal createdAt come in the order tb the database chooses                *)
RowBefore(a, b, descending, tb) ==
  \/ /\ descending
     /\ a.createdAt > b.createdAt
  \/ /\ ~descending
     /\ a.createdAt < b.createdAt
  \/ /\ a.createdAt = b.createdAt
     /\ IF tb = "asc" THEN a.id < b.id ELSE a.id > b.id

(* the rows in query order: row r stands at place 1 + the number of rows    *)
(* that come before it                                                      *)
OrderBy(rows, descending, tb) ==
  LET placed == {<<1 + Cardinality({y \in rows : RowBefore(y, r, descending, tb)}), r>> :
                   r \in rows}
  IN [i \in 1..Cardinality(rows) |-> (CHOOSE p \in placed : p[1] = i)[2]]

Range(s) == {s[i] : i \in 1..Len(s)}

Reverse(s) == [i \in 1..Len(s) |-> s[Len(s) + 1 - i]]

(* getPropertyMessages *)
getPropertyMessages(ms, propertyId, userId, tb) ==
  OrderBy({m \in ms : /\ m.propertyId = propertyId
                            /\ (m.senderId = userId \/ m.receiverId = userId)},
          FALSE, tb)

getAllUserMessagesReceivedOnly(ms, userId, tb) ==
  OrderBy({m \in Joined(ms) : m.receiverId = userId}, FALSE, tb)

(* getAllUserMessages *)
getAllUserMessages(ms, userId, tb) ==
  OrderBy({m \in Joined(ms) : m.senderId = userId \/ m.receiverId = userId},
          FALSE, tb)

getConversationMessagesOneWay(ms, propertyId, userId, otherUserId, page, limit, tb) ==
  LET rows == {m \in Joined(ms) :
                 /\ m.propertyId = propertyId
                 /\ m.senderId = userId /\ m.receiverId = otherUserId
                 /\ m.senderId # m.receiverId}
      sorted == OrderBy(rows, TRUE, tb)
      offset == (page - 1) * limit
  IN SubSeq(sorted, offset + 1, Min(offset + limit, Len(sorted)))

getConversationMessagesWithSelf(ms, propertyId, userId, otherUserId, page, limit, tb) ==
  LET rows == {m \in Joined(ms) :
                 /\ m.propertyId = propertyId
                 /\ \/ m.senderId = userId /\ m.receiverId = otherUserId
                    \/ m.senderId = otherUserId /\ m.receiverId = userId}
      sorted == OrderBy(rows, TRUE, tb)
      offset == (page - 1) * limit
  IN SubSeq(sorted, offset + 1, Min(offset + limit, Len(sorted)))

getConversationMessagesOldestFirst(ms, propertyId, userId, otherUserId, page, limit, tb) ==
  LET rows == {m \in Joined(ms) :
                 /\ m.propertyId = propertyId
                 /\ \/ m.senderId = userId /\ m.receiverId = otherUserId
                    \/ m.senderId = otherUserId /\ m.receiverId = userId
                 /\ m.senderId # m.receiverId}
      sorted == OrderBy(rows, FALSE, tb)
      offset == (page - 1) * limit
  IN SubSeq(sorted, offset + 1, Min(offset + limit, Len(sorted)))

(* getConversationMessages: where ... orderBy(desc(createdAt)).limit.offset *)
getConversationMessages(ms, propertyId, userId, otherUserId, page, limit, tb) ==
  LET rows == {m \in Joined(ms) :
                 /\ m.propertyId = propertyId
                 /\ \/ m.senderId = userId /\ m.receiverId = otherUserId
                    \/ m.senderId = otherUserId /\ m.receiverId = userId
                 /\ m.senderId # m.receiverId}
      sorted == OrderBy(rows, TRUE, tb)
      offset == (page - 1) * limit
  IN SubSeq(sorted, offset + 1, Min(offset + limit, Len(sorted)))

(* the conversation key `${propertyId}-${min}-${max}` as its three numbers *)
ConversationKey(propertyId, userId, otherUserId) ==
  <<propertyId, Min(userId, otherUserId), Max(userId, otherUserId)>>

IndexOfKey(convs, key) ==
  IF \E i \in 1..Len(convs) : convs[i].id = key
    THEN CHOOSE i \in 1..Len(convs) : convs[i].id = key
    ELSE 0

ConversationStepCountSent(convs, message, userId) ==
  LET otherUserId == IF message.senderId = userId THEN message.receiverId
                     ELSE message.senderId
      key == ConversationKey(message.propertyId, userId, otherUserId)
      added == IF IndexOfKey(convs, key) = 0
                 THEN Append(convs, [id |-> key, propertyId |-> message.propertyId,
                                     otherUserId |-> otherUserId,
                                     lastMessage |-> message, unreadCount |-> 0])
                 ELSE convs
      i == IndexOfKey(added, key)
      newer == IF message.createdAt > added[i].lastMessage.createdAt
                 THEN [added EXCEPT ![i].lastMessage = message] ELSE added
  IN IF otherUserId = userId THEN convs
     ELSE IF ~message.read
            THEN [newer EXCEPT ![i].unreadCount = @ + 1] ELSE newer

(* getUserConversations, the body of userMessages.forEach *)
ConversationStep(convs, message, userId) ==
  LET otherUserId == IF message.senderId = userId THEN message.receiverId
                     ELSE message.senderId
      key == ConversationKey(message.propertyId, userId, otherUserId)
      added == IF IndexOfKey(convs, key) = 0
                 THEN Append(convs, [id |-> key, propertyId |-> message.propertyId,
                                     otherUserId |-> otherUserId,
                                     lastMessage |-> message, unreadCount |-> 0])
                 ELSE convs
      i == IndexOfKey(added, key)
      newer == IF message.createdAt > added[i].lastMessage.createdAt
                 THEN [added EXCEPT ![i].lastMessage = message] ELSE added
  IN IF otherUserId = userId THEN convs
     ELSE IF message.receiverId = userId /\ ~message.read
            THEN [newer EXCEPT ![i].unreadCount = @ + 1] ELSE newer

RECURSIVE GroupConversations(_, _, _, _)
GroupConversations(convs, rows, k, userId) ==
  IF k > Len(rows) THEN convs
  ELSE GroupConversations(ConversationStep(convs, rows[k], userId), rows, k + 1, userId)

(* Array.prototype.sort with (a, b) => time(b.lastMessage) - time(a.lastMessage): *)
(* a stable sort, newest last message first                                   *)
RECURSIVE SortByLastMessage(_)
SortByLastMessage(convs) ==
  IF convs = <<>> THEN <<>>
  ELSE LET i == CHOOSE j \in 1..Len(convs) :
                  /\ \A k \in 1..Len(convs) :
                       convs[k].lastMessage.createdAt <= convs[j].lastMessage.createdAt
                  /\ \A k \in 1..(j - 1) :
                       convs[k].lastMessage.createdAt < convs[j].lastMessage.createdAt
       IN <<convs[i]>> \o
          SortByLastMessage(SubSeq(convs, 1, i - 1) \o SubSeq(convs, i + 1, Len(convs)))

(* getUserConversations *)
getUserConversations(ms, userId, tb) ==
  LET userMessages ==
        OrderBy({m \in Joined(ms) :
                   /\ (m.senderId = userId \/ m.receiverId = userId)
                   /\ m.senderId # m.receiverId}, TRUE, tb)
  IN SortByLastMessage(GroupConversations(<<>>, userMessages, 1, userId))

(* ---------------------------------------------------------------------- *)
(* client chat page: grouping of the GET /api/messages result               *)
(* ---------------------------------------------------------------------- *)
ChatKeyBySender(message, userId) ==
  <<message.propertyId, message.senderId, message.receiverId>>

(* key = `${propertyId}-${userIds[0]}-${userIds[1]}` with userIds sorted *)
ChatKey(message, userId) ==
  LET otherUserId == IF message.senderId = userId THEN message.receiverId
                     ELSE message.senderId
  IN <<message.propertyId, Min(userId, otherUserId), Max(userId, otherUserId)>>

(* the earlier chat page: key = `${propertyId}-${otherUserId}` *)
ChatKeyOther(message, userId) ==
  LET otherUserId == IF message.senderId = userId THEN message.receiverId
                     ELSE message.senderId
  IN <<message.propertyId, otherUserId>>

(* messages.reduce: acc[key].push(message); groups in order of first arrival *)
RECURSIVE GroupMessages(_, _, _, _)
GroupMessages(groups, rows, k, userId) ==
  IF k > Len(rows) THEN groups
  ELSE LET key == ChatKey(rows[k], userId)
           at == IndexOfKey(groups, key)
           next == IF at = 0
                     THEN Append(groups, [id |-> key, messages |-> <<rows[k]>>])
                     ELSE [groups EXCEPT ![at].messages = Append(@, rows[k])]
       IN GroupMessages(next, rows, k + 1, userId)

(* Object.values(groupedMessages).forEach: one conversation per group *)
ChatConversations(polled, userId) ==
  LET groups == GroupMessages(<<>>, polled, 1, userId)
  IN [g \in 1..Len(groups) |->
        LET messageGroup == groups[g].messages
            firstMessage == messageGroup[1]
        IN [id |-> groups[g].id,
            propertyId |-> firstMessage.propertyId,
            otherUserId |-> IF firstMessage.senderId = userId
                              THEN firstMessage.receiverId ELSE firstMessage.senderId,
            messages |-> messageGroup,
            lastMessage |-> messageGroup[Len(messageGroup)],
            unreadCount |-> Cardinality({j \in 1..Len(messageGroup) :
                               /\ messageGroup[j].receiverId = userId
                               /\ ~messageGroup[j].read})]]

(* ---------------------------------------------------------------------- *)
(* Initial state: the registered users and their listings, no message       *)
(* ---------------------------------------------------------------------- *)
(* the email of the users registered before: one address each *)
InitialEmail(u) == <<"user", u>>

(* no chat page has polled, no deleteProperty and no registration under way *)
OtherInit ==
  /\ chatMessages = [u \in Users |-> <<>>]
  /\ deleting = {}
  /\ regs = [r \in Requests |-> [pc |-> "idle", email |-> <<>>, userId |-> 0]]
  /\ emails = [u \in users |-> InitialEmail(u)]

Init ==
  /\ users = Users
  /\ properties = {[id |-> l, userId |-> 1] : l \in Listings}
  /\ messages = {}
  /\ nextMsgId = 1
  /\ now = 0
  /\ resp = 0
  /\ userSessions = [s \in Sockets |-> 0]
  /\ rooms = [s \in Sockets |-> {}]
  /\ OtherInit

(* the insert of a message row: the serial advances, the clock may tick *)
InsertMessage(data, t) ==
  /\ messages' = createMessage(messages, nextMsgId, data, t)
  /\ nextMsgId' = nextMsgId + 1
  /\ now' = t

(* POST /api/messages, server/routes.ts: no check of sender against receiver *)
PostMessage(cap, u, body) ==
  /\ nextMsgId <= cap
  /\ u \in users
  /\ LET data == [propertyId |-> body.propertyId, senderId |-> u,
                  receiverId |-> body.receiverId, content |-> body.content]
     IN IF ForeignKeysHold(data)
          THEN /\ \E t \in {now, now + 1} : InsertMessage(data, t)
               /\ resp' = 200
          ELSE /\ resp' = 400
               /\ UNCHANGED <<messages, nextMsgId, now>>
  /\ UNCHANGED <<users, properties, userSessions, rooms, otherVars>>

(* POST /api/messages, the later routes.ts: "Cannot send message to yourself" *)
PostMessageGuarded(cap, u, body) ==
  /\ nextMsgId <= cap
  /\ u \in users
  /\ LET data == [propertyId |-> body.propertyId, senderId |-> u,
                  receiverId |-> body.receiverId, content |-> body.content]
     IN IF data.senderId = data.receiverId
          THEN /\ resp' = 400
               /\ UNCHANGED <<messages, nextMsgId, now>>
          ELSE IF ForeignKeysHold(data)
                 THEN /\ \E t \in {now, now + 1} : InsertMessage(data, t)
                      /\ resp' = 200
                 ELSE /\ resp' = 400
                      /\ UNCHANGED <<messages, nextMsgId, now>>
  /\ UNCHANGED <<users, properties, userSessions, rooms, otherVars>>

(* PUT /api/messages/:id/read (the same handler in both routes.ts) *)
PutMessageRead(u, messageId) ==
  /\ u \in users
  /\ messages' = markMessageAsRead(messages, messageId, u)
  /\ resp' = 200
  /\ UNCHANGED <<users, properties, nextMsgId, now, userSessions, rooms, otherVars>>

(* GET /api/messages/conversations *)
GetConversations(u) ==
  /\ u \in users
  /\ resp' = 200
  /\ UNCHANGED <<users, properties, messages, nextMsgId, now, userSessions, rooms,
               otherVars>>

ConversationRouteTrustsId(ms, currentUserId, parts, tb) ==
  Reverse(getConversationMessages(ms, parts[1], parts[2], parts[3],
                                  1, DefaultLimit, tb))

(* GET /api/messages/:conversationId: the id split at "-" into its parts;   *)
(* the messages come back oldest first                                      *)
ConversationRoute(ms, currentUserId, parts, tb) ==
  LET otherUserId == IF parts[2] = currentUserId THEN parts[3] ELSE parts[2]
  IN Reverse(getConversationMessages(ms, parts[1], currentUserId, otherUserId,
                                     1, DefaultLimit, tb))

GetConversationMessages(u, parts) ==
  /\ u \in users
  /\ resp' = IF Len(parts) # 3 THEN 400 ELSE 200
  /\ UNCHANGED <<users, properties, messages, nextMsgId, now, userSessions, rooms,
               otherVars>>

(* GET /api/messages: answers getAllUserMessages of the caller *)
GetMessages(u) ==
  /\ u \in users
  /\ resp' = 200
  /\ UNCHANGED <<users, properties, messages, nextMsgId, now, userSessions, rooms,
               otherVars>>

(* GET /api/properties/:id/messages: answers getPropertyMessages of the caller *)
GetPropertyMessages(u, propertyId) ==
  /\ u \in users
  /\ resp' = 200
  /\ UNCHANGED <<users, properties, messages, nextMsgId, now, userSessions, rooms,
               otherVars>>

(* getUserByEmail: select from users where email = ? *)
getUserByEmail(email) == {u \in users : emails[u] = email}

(* users.id is serial: every insert attempt, the failed ones too, draws the *)
(* next value of the sequence                                               *)
nextUserId == NumUsers + 1 + Cardinality({r \in Requests : regs[r].pc \in {"done", "failed"}})

(* POST /api/auth/register up to its first await: the email is looked up    *)
(* and a registered one is answered 400                                     *)
RegisterCheck(r, email) ==
  /\ regs[r].pc = "idle"
  /\ IF getUserByEmail(email) # {}
       THEN regs' = [regs EXCEPT ![r] = [pc |-> "rejected", email |-> email, userId |-> 0]]
            /\ resp' = 400
       ELSE regs' = [regs EXCEPT ![r] = [pc |-> "checked", email |-> email, userId |-> 0]]
            /\ UNCHANGED resp
  /\ UNCHANGED <<users, properties, messages, nextMsgId, now, userSessions, rooms,
                 chatMessages, deleting, emails>>

(* createUser without users_email_unique *)
RegisterCreateNoUnique(r) ==
  /\ regs[r].pc = "checked"
  /\ users' = users \cup {nextUserId}
  /\ emails' = [u \in users \cup {nextUserId} |->
                  IF u = nextUserId THEN regs[r].email ELSE emails[u]]
  /\ regs' = [regs EXCEPT ![r].pc = "done", ![r].userId = nextUserId]
  /\ resp' = 200
  /\ UNCHANGED <<properties, messages, nextMsgId, now, userSessions, rooms,
                 chatMessages, deleting>>

(* POST /api/auth/register after the lookup: createUser inserts the row; a  *)
(* violation of users_email_unique throws and the catch answers 400,        *)
(* otherwise session.userId is the new user's id                            *)
RegisterCreate(r) ==
  /\ regs[r].pc = "checked"
  /\ IF getUserByEmail(regs[r].email) # {}
       THEN /\ regs' = [regs EXCEPT ![r].pc = "failed"]
            /\ resp' = 400
            /\ UNCHANGED <<users, emails>>
       ELSE /\ users' = users \cup {nextUserId}
            /\ emails' = [u \in users \cup {nextUserId} |->
                            IF u = nextUserId THEN regs[r].email ELSE emails[u]]
            /\ regs' = [regs EXCEPT ![r].pc = "done", ![r].userId = nextUserId]
            /\ resp' = 200
  /\ UNCHANGED <<properties, messages, nextMsgId, now, userSessions, rooms,
                 chatMessages, deleting>>

(* GET /api/properties: answers getProperties(search) *)
GetProperties(search) ==
  /\ resp' = 200
  /\ UNCHANGED <<users, properties, messages, nextMsgId, now, userSessions, rooms,
                 otherVars>>

(* PUT and PATCH /api/properties/:id: 404 when updateProperty returns no row *)
UpdateProperty(u, id, data) ==
  /\ u \in users
  /\ properties' = updateProperty(properties, id, data, u)
  /\ resp' = IF \E p \in properties : p.id = id /\ p.userId = u THEN 200 ELSE 404
  /\ UNCHANGED <<users, messages, nextMsgId, now, userSessions, rooms, otherVars>>

(* chat page, useQuery with refetchInterval: one poll of GET /api/messages   *)
(* replaces the data of the page                                            *)
Poll(u) ==
  /\ u \in users
  /\ \E tb \in TieOrders :
       chatMessages' = [chatMessages EXCEPT ![u] = getAllUserMessages(messages, u, tb)]
  /\ UNCHANGED <<users, properties, messages, nextMsgId, now, resp, userSessions,
                 rooms, deleting, regs, emails>>

(* DELETE /api/properties/:id, up to the end of the first statement of      *)
(* deleteProperty: the messages of the listing are deleted, whoever calls   *)
DeletePropertyBegin(u, id) ==
  /\ u \in users
  /\ deleting = {}
  /\ messages' = deleteMessagesOf(messages, id)
  /\ deleting' = {[id |-> id, userId |-> u,
                   removed |-> {m.id : m \in messages \ deleteMessagesOf(messages, id)}]}
  /\ UNCHANGED <<users, properties, nextMsgId, now, resp, userSessions, rooms,
                 chatMessages, regs, emails>>

DeletePropertyEndNoForeignKey(u, id) ==
  /\ \E d \in deleting : d.id = id /\ d.userId = u
  /\ properties' = deletePropertyRows(properties, id, u)
  /\ resp' = IF properties' # properties THEN 200 ELSE 404
  /\ deleting' = {}
  /\ UNCHANGED <<users, messages, nextMsgId, now, userSessions, rooms,
                 chatMessages, regs, emails>>

(* DELETE /api/properties/:id, the rest: the second statement deletes the   *)
(* row if the caller owns it; a row that a message references cannot be     *)
(* deleted (foreign key, on delete no action) and the statement throws      *)
DeletePropertyEnd(u, id) ==
  /\ \E d \in deleting : d.id = id /\ d.userId = u
  /\ LET kept == deletePropertyRows(properties, id, u)
     IN IF kept # properties /\ (\E m \in messages : m.propertyId = id)
          THEN /\ resp' = 500
               /\ UNCHANGED properties
          ELSE /\ properties' = kept
               /\ resp' = IF kept # properties THEN 200 ELSE 404
  /\ deleting' = {}
  /\ UNCHANGED <<users, messages, nextMsgId, now, userSessions, rooms,
                 chatMessages, regs, emails>>

(* ---------------------------------------------------------------------- *)
(* server/websocket.ts                                                      *)
(* ---------------------------------------------------------------------- *)
(* socket.on("authenticate"): the user id is the one the client sends; the  *)
(* socket joins room user_<id> and stays in the rooms it joined before      *)
WsAuthenticate(s, userId) ==
  /\ userSessions' = [userSessions EXCEPT ![s] = userId]
  /\ rooms' = [rooms EXCEPT ![s] = @ \cup {userId}]
  /\ UNCHANGED <<users, properties, messages, nextMsgId, now, resp, otherVars>>

(* socket.on("send_message") *)
WsSendMessage(cap, s, body) ==
  /\ nextMsgId <= cap
  /\ LET senderId == userSessions[s]
         data == [propertyId |-> body.propertyId, senderId |-> senderId,
                  receiverId |-> body.receiverId, content |-> body.content]
     IN IF senderId = 0 \/ ~ForeignKeysHold(data)
          THEN UNCHANGED <<messages, nextMsgId, now>>
          ELSE \E t \in {now, now + 1} : InsertMessage(data, t)
  /\ UNCHANGED <<users, properties, resp, userSessions, rooms, otherVars>>

(* io.to(`user_${senderId}`).emit("new_message") and the same for the       *)
(* receiver: the sockets that get the push of message, given the rooms rms  *)
NewMessageRecipients(rms, message) ==
  {s \in DOMAIN rms : rms[s] \cap {message.senderId, message.receiverId} # {}}

(* socket.on("mark_read") *)
WsMarkRead(s, messageId) ==
  /\ LET userId == userSessions[s]
     IN IF userId = 0
          THEN UNCHANGED messages
          ELSE messages' = markMessageAsRead(messages, messageId, userId)
  /\ UNCHANGED <<users, properties, nextMsgId, now, resp, userSessions, rooms,
               otherVars>>

(* socket.on("disconnect"): the session entry goes; a socket that is gone   *)
(* is in no room, and the next connection starts in none                    *)
WsDisconnect(s) ==
  /\ userSessions' = [userSessions EXCEPT ![s] = 0]
  /\ rooms' = [rooms EXCEPT ![s] = {}]
  /\ UNCHANGED <<users, properties, messages, nextMsgId, now, resp, otherVars>>

(* ---------------------------------------------------------------------- *)
(* Specifications                                                           *)
(* ---------------------------------------------------------------------- *)
Bodies == [propertyId : Listings, receiverId : Users, content : Contents]
MessageIds == 1..(nextMsgId - 1)
WellFormedIds == {<<l, 1, 2>> : l \in Listings}

(* the HTTP interface: both versions of the routes, any logged-in user *)
Next ==
  \/ \E u \in Users, body \in Bodies : PostMessage(MaxMsgs, u, body)
  \/ \E u \in Users, body \in Bodies : PostMessageGuarded(MaxMsgs, u, body)
  \/ \E u \in Users, id \in MessageIds : PutMessageRead(u, id)
  \/ \E u \in Users : GetConversations(u)
  \/ \E u \in Users, parts \in WellFormedIds : GetConversationMessages(u, parts)

Spec == Init /\ [][Next]_vars

(* bodies whose content is the empty string *)
EmptyBodies == [propertyId : Listings, receiverId : Users, content : {""}]

(* bodies that carry a senderId of their own, as the simple chat page sends *)
ForgedBodies == [propertyId : {1}, receiverId : Users, content : Contents,
                 senderId : Users]

(* the user logged in at the browser that opened socket s *)
SocketClient(s) == ((s - 1) % NumUsers) + 1

(* the HTTP interface together with the socket events *)
NextWs ==
  \/ Next
  \/ \E u \in Users, body \in EmptyBodies \cup ForgedBodies :
       PostMessage(MaxMsgs, u, body)
  \/ \E s \in Sockets, u \in Users : WsAuthenticate(s, u)
  \/ \E s \in Sockets, body \in Bodies \cup EmptyBodies :
       WsSendMessage(MaxMsgs, s, body)
  \/ \E s \in Sockets, id \in MessageIds : WsMarkRead(s, id)
  \/ \E s \in Sockets : WsDisconnect(s)

SpecWs == Init /\ [][NextWs]_vars

(* a long thread: users 1 and 2 have exchanged n messages about listing 1,  *)
(* two per clock tick, and go on writing                                    *)
LongThread(n) ==
  {[id |-> i, propertyId |-> 1,
    senderId |-> IF i % 2 = 1 THEN 1 ELSE 2,
    receiverId |-> IF i % 2 = 1 THEN 2 ELSE 1,
    content |-> "hi", read |-> FALSE, createdAt |-> (i + 1) \div 2] : i \in 1..n}

InitLong ==
  /\ users = Users
  /\ properties = {[id |-> l, userId |-> 1] : l \in Listings}
  /\ \E n \in (DefaultLimit - 1)..DefaultLimit :
       /\ messages = LongThread(n)
       /\ nextMsgId = n + 1
       /\ now = (n + 1) \div 2
  /\ resp = 0
  /\ userSessions = [s \in Sockets |-> 0]
  /\ rooms = [s \in Sockets |-> {}]
  /\ OtherInit

LongBodies == [propertyId : {1}, receiverId : {1, 2}, content : Contents]

NextLong ==
  \/ \E u \in {1, 2}, body \in LongBodies :
       PostMessage(DefaultLimit + MaxExtra, u, body)
  \/ \E u \in {1, 2}, body \in LongBodies :
       PostMessageGuarded(DefaultLimit + MaxExtra, u, body)
  \/ \E u \in {1, 2} : PutMessageRead(u, nextMsgId - 1)
  \/ \E u \in {1, 2} : GetConversationMessages(u, <<1, 1, 2>>)

SpecLong == InitLong /\ [][NextLong]_vars

(* requests at the edge of the interface: a registered user who is party to *)
(* no message, bodies that name a listing or a receiver that does not exist *)
(* (id 0 is never given out by a serial), a message id not yet given out    *)
Outsider == NumUsers + 1
Registered == Users \cup {Outsider}
Unknown == {0}
EdgeBodies == [propertyId : {1} \cup Unknown, receiverId : Users \cup Unknown,
               content : Contents]
EdgeIds == {<<1, a, b>> : a \in Registered, b \in Registered}

InitEdge ==
  /\ users = Registered
  /\ properties = {[id |-> l, userId |-> 1] : l \in Listings}
  /\ messages = {}
  /\ nextMsgId = 1
  /\ now = 0
  /\ resp = 0
  /\ userSessions = [s \in Sockets |-> 0]
  /\ rooms = [s \in Sockets |-> {}]
  /\ OtherInit

NextEdge ==
  \/ \E u \in Users, body \in EdgeBodies : PostMessage(MaxMsgs, u, body)
  \/ \E u \in Users, body \in EdgeBodies :
       body.receiverId # u /\ PostMessageGuarded(MaxMsgs, u, body)
  \/ \E u \in Registered, id \in 1..nextMsgId : PutMessageRead(u, id)
  \/ \E u \in Registered : GetMessages(u)
  \/ \E u \in Registered : GetPropertyMessages(u, 1)
  \/ \E u \in Registered : GetConversations(u)
  \/ \E u \in Registered, parts \in EdgeIds : GetConversationMessages(u, parts)

SpecEdge == InitEdge /\ [][NextEdge]_vars

(* listings being deleted while messages about them are sent *)
NextDelete ==
  \/ \E u \in Users, body \in Bodies :
       body.receiverId # u /\ PostMessageGuarded(MaxMsgs, u, body)
  \/ \E u \in Users, id \in Listings : DeletePropertyBegin(u, id)
  \/ \E u \in Users, id \in Listings : DeletePropertyEnd(u, id)

SpecDelete == Init /\ [][NextDelete]_vars

(* users 1 and 2 write to each other about listing 1 with their chat pages  *)
(* open; the refetch timer of an open page keeps firing                     *)
NextPoll ==
  \/ \E u \in {1, 2}, body \in LongBodies :
       body.receiverId # u /\ PostMessageGuarded(MaxMsgs, u, body)
  \/ \E u \in {1, 2} : Poll(u)

SpecPoll ==
  /\ Init
  /\ [][NextPoll]_vars
  /\ \A u \in {1, 2} : WF_vars(Poll(u))

(* three users on sockets that authenticate, send to another user and      *)
(* disconnect                                                               *)
PushSockets == 1..(NumSockets + 1)
PushBodies == [propertyId : {1}, receiverId : Registered, content : Contents]

InitPush ==
  /\ users = Registered
  /\ properties = {[id |-> l, userId |-> 1] : l \in Listings}
  /\ messages = {}
  /\ nextMsgId = 1
  /\ now = 0
  /\ resp = 0
  /\ userSessions = [s \in PushSockets |-> 0]
  /\ rooms = [s \in PushSockets |-> {}]
  /\ OtherInit

NextPush ==
  \/ \E s \in PushSockets, u \in Registered : WsAuthenticate(s, u)
  \/ \E s \in PushSockets, body \in PushBodies :
       body.receiverId # userSessions[s] /\ WsSendMessage(MaxExtra, s, body)
  \/ \E s \in PushSockets : WsDisconnect(s)

SpecPush == InitPush /\ [][NextPush]_vars

(* the listing catalogue: rows with the columns the search and the update   *)
(* routes use                                                               *)
Amounts == {0, 1}
Types == {"apartment", "house"}
UpdateBodies == [price : Optional(Amounts), available : Optional({FALSE}),
                 userId : Optional(Users)]
Searches == [type : Optional(Types),
             minPrice : Optional(Amounts), maxPrice : Optional(Amounts),
             minRooms : Optional(Amounts), maxRooms : Optional(Amounts)]

(* listing l belongs to user 1 or 2 in turn *)
InitCatalog ==
  /\ users = Users
  /\ properties = {[id |-> l, userId |-> 2 - (l % 2), price |-> 1, rooms |-> 1,
                     type |-> "apartment", available |-> TRUE] : l \in Listings}
  /\ messages = {}
  /\ nextMsgId = 1
  /\ now = 0
  /\ resp = 0
  /\ userSessions = [s \in Sockets |-> 0]
  /\ rooms = [s \in Sockets |-> {}]
  /\ OtherInit

NextCatalog ==
  \/ \E u \in Users, id \in Listings, data \in UpdateBodies : UpdateProperty(u, id, data)
  \/ \E u \in Users, id \in Listings : DeletePropertyBegin(u, id)
  \/ \E u \in Users, id \in Listings : DeletePropertyEnd(u, id)

SpecCatalog == InitCatalog /\ [][NextCatalog]_vars

(* concurrent registrations: each request carries a new email or the email  *)
(* of user 1, and the requests interleave at their awaits                   *)
NewEmails == {<<"new", 1>>, <<"new", 2>>}
RegisterEmails == NewEmails \cup {InitialEmail(1)}

NextRegister ==
  \/ \E r \in Requests, email \in RegisterEmails : RegisterCheck(r, email)
  \/ \E r \in Requests : RegisterCreate(r)

SpecRegister == Init /\ [][NextRegister]_vars

(* the search over any catalogue of two listings *)
InitSearch ==
  /\ users = Users
  /\ \E price \in [Listings -> Amounts], nrooms \in [Listings -> Amounts],
        type \in [Listings -> Types], available \in [Listings -> BOOLEAN] :
       properties = {[id |-> l, userId |-> 1, price |-> price[l], rooms |-> nrooms[l],
                      type |-> type[l], available |-> available[l]] : l \in Listings}
  /\ messages = {}
  /\ nextMsgId = 1
  /\ now = 0
  /\ resp = 0
  /\ userSessions = [s \in Sockets |-> 0]
  /\ rooms = [s \in Sockets |-> {}]
  /\ OtherInit

NextSearch == \E search \in Searches : GetProperties(search)

SpecSearch == InitSearch /\ [][NextSearch]_vars

(* ---------------------------------------------------------------------- *)
(* Properties                                                               *)
(* ---------------------------------------------------------------------- *)
Thread(propertyId, a, b) ==
  {m \in messages : /\ m.propertyId = propertyId
                    /\ {m.senderId, m.receiverId} = {a, b}}

(* C1: sending a message to oneself is rejected on every creation path, so  *)
(* no stored message has senderId = receiverId.                             *)
C1_NoSelfMessageStored ==
  \A m \in messages : m.senderId # m.receiverId

(* C2: a markRead call by anyone but the receiver of the message (its       *)
(* sender included) leaves the read flag as it is, and a read flag changes  *)
(* only in a markRead call made by the receiver of that message.            *)
C2_ReadOnlyByReceiver ==
  [][/\ \A c \in Users : \A m \in messages :
          (c # m.receiverId /\ PutMessageRead(c, m.id))
            => \A m2 \in messages' : m2.id = m.id => m2.read = m.read
     /\ \A m \in messages : \A m2 \in messages' :
          (m2.id = m.id /\ m2.read # m.read)
            => PutMessageRead(m.receiverId, m.id)]_vars

(* a message sent by one user to another has been marked read *)
C2_Witness ==
  \E m \in messages : m.read /\ m.senderId # m.receiverId /\ resp = 200

(* C3: every message is created unread, and a read flag that is true never  *)
(* becomes false again while the message exists.                            *)
C3_ReadIsMonotone ==
  [][/\ \A m2 \in messages' :
          (m2.id \notin {m.id : m \in messages}) => ~m2.read
     /\ \A m \in messages : \A m2 \in messages' :
          (m2.id = m.id /\ m.read) => m2.read]_vars

(* a read message next to a message created after it was read *)
C3_Witness ==
  \E m \in messages, n \in messages : m.read /\ ~n.read /\ n.id > m.id

(* C4: markRead by the receiver sets read = true and succeeds; called on a  *)
(* message that is already read it leaves the store as it is and succeeds.  *)
C4_MarkReadIdempotent ==
  [][\A m \in messages :
       PutMessageRead(m.receiverId, m.id)
         => /\ resp' = 200
            /\ \A m2 \in messages' : m2.id = m.id => m2.read
            /\ m.read => messages' = messages
            /\ markMessageAsRead(messages', m.id, m.receiverId) = messages']_vars

(* every stored message has been marked read by its receiver *)
C4_Witness ==
  /\ Cardinality(messages) = MaxMsgs
  /\ \A m \in messages : m.read

(* C5: thread retrieval is symmetric: for distinct users a and b and any    *)
(* listing, the query for viewer a with other b returns the same set of     *)
(* messages as the query for viewer b with other a, in storage and through  *)
(* GET /api/messages/:conversationId.                                       *)
C5_ThreadRetrievalSymmetric ==
  \A tb \in TieOrders, l \in Listings, a \in Users, b \in Users :
    a # b =>
      /\ Range(getConversationMessages(messages, l, a, b, 1, DefaultLimit, tb))
           = Range(getConversationMessages(messages, l, b, a, 1, DefaultLimit, tb))
      /\ Range(ConversationRoute(messages, a, ConversationKey(l, a, b), tb))
           = Range(ConversationRoute(messages, b, ConversationKey(l, a, b), tb))

(* a thread holds a message of each of its two participants, and the query  *)
(* returns both                                                             *)
C5_Witness ==
  \E l \in Listings, a \in Users, b \in Users :
    /\ a # b
    /\ \E m \in Range(getConversationMessages(messages, l, a, b, 1, DefaultLimit, "asc")),
          n \in Range(getConversationMessages(messages, l, a, b, 1, DefaultLimit, "asc")) :
         m.senderId = a /\ n.senderId = b

(* C6: the unread count of every conversation listed for viewer u is the    *)
(* number of stored messages of that thread with receiver u and read false. *)
C6_UnreadCountCorrect ==
  \A u \in Users, tb \in TieOrders :
    LET convs == getUserConversations(messages, u, tb)
    IN \A i \in 1..Len(convs) :
         convs[i].unreadCount =
           Cardinality({m \in Thread(convs[i].propertyId, u, convs[i].otherUserId) :
                          m.receiverId = u /\ ~m.read})

(* a viewer's conversation with one unread inbound message and one message  *)
(* that does not count: sent by the viewer, or already read                 *)
C6_Witness ==
  \E u \in Users :
    LET convs == getUserConversations(messages, u, "asc")
    IN \E i \in 1..Len(convs) :
         /\ convs[i].unreadCount = 1
         /\ Cardinality(Thread(convs[i].propertyId, u, convs[i].otherUserId)) = 2

(* C7: a markRead by the receiver u of message m lowers u's unread count of *)
(* m's thread by one if m was unread (if m was read, the store stays as it   *)
(* is), and changes no other unread count: not that of the same thread as   *)
(* the other participant sees it, nor that of any other thread for any      *)
(* viewer.                                                                  *)
C7_MarkReadFrame ==
  [][\A m \in messages :
       PutMessageRead(m.receiverId, m.id) =>
         IF m.read THEN messages' = messages
         ELSE \A v \in Users, tb \in TieOrders :
           LET before == getUserConversations(messages, v, tb)
               after == getUserConversations(messages', v, tb)
           IN /\ Len(after) = Len(before)
              /\ \A i \in 1..Len(before) :
                   /\ after[i].id = before[i].id
                   /\ after[i].unreadCount =
                        before[i].unreadCount -
                          (IF /\ v = m.receiverId
                              /\ m.senderId # m.receiverId
                              /\ before[i].id = ConversationKey(m.propertyId,
                                                   m.senderId, m.receiverId)
                             THEN 1 ELSE 0)]_vars

(* a viewer with two conversations: the inbound message of one has been     *)
(* read, that of the other one is still unread                              *)
C7_Witness ==
  \E u \in Users :
    LET convs == getUserConversations(messages, u, "asc")
    IN \E i, j \in 1..Len(convs) :
         /\ i # j
         /\ convs[i].lastMessage.receiverId = u
         /\ convs[i].lastMessage.read
         /\ convs[i].unreadCount = 0
         /\ convs[j].unreadCount = 1

(* C8: the key of a conversation between distinct users is the same         *)
(* whichever of the two is the viewer, in the server projection and in both *)
(* client groupings.                                                        *)
C8_KeyIndependentOfViewer ==
  \A m \in messages :
    m.senderId # m.receiverId =>
      /\ ConversationKey(m.propertyId, m.senderId, m.receiverId)
           = ConversationKey(m.propertyId, m.receiverId, m.senderId)
      /\ ChatKey(m, m.senderId) = ChatKey(m, m.receiverId)
      /\ ChatKeyOther(m, m.senderId) = ChatKeyOther(m, m.receiverId)

(* C9: a reply does not split a thread: when b answers a message of a about *)
(* listing l, the reply and the message it answers are in one conversation  *)
(* of a's list and of b's list, in the server projection and in the client  *)
(* grouping, and neither list gets longer.                                  *)
C9_ReplyKeepsThread ==
  [][\A n \in messages' : \A m \in messages :
       (/\ n.id \notin {x.id : x \in messages}
        /\ n.senderId # n.receiverId
        /\ m.propertyId = n.propertyId
        /\ m.senderId = n.receiverId
        /\ m.receiverId = n.senderId)
       => \A v \in {n.senderId, n.receiverId}, tb \in TieOrders :
            LET other == IF v = n.senderId THEN n.receiverId ELSE n.senderId
                before == getUserConversations(messages, v, tb)
                after == getUserConversations(messages', v, tb)
                chatBefore == ChatConversations(getAllUserMessages(messages, v, tb), v)
                chatAfter == ChatConversations(getAllUserMessages(messages', v, tb), v)
            IN /\ Len(after) = Len(before)
               /\ Cardinality({i \in 1..Len(after) :
                     /\ after[i].propertyId = n.propertyId
                     /\ after[i].otherUserId = other}) = 1
               /\ Len(chatAfter) = Len(chatBefore)
               /\ \E i \in 1..Len(chatAfter) :
                     /\ \E j \in 1..Len(chatAfter[i].messages) :
                          chatAfter[i].messages[j].id = n.id
                     /\ \E j \in 1..Len(chatAfter[i].messages) :
                          chatAfter[i].messages[j].id = m.id]_vars

(* a message and, after it, its answer about the same listing *)
C9_Witness ==
  \E m \in messages, n \in messages :
    /\ n.id > m.id
    /\ n.senderId # n.receiverId
    /\ m.propertyId = n.propertyId
    /\ m.senderId = n.receiverId
    /\ m.receiverId = n.senderId

StampBefore(a, b) ==
  \/ a.createdAt < b.createdAt
  \/ a.createdAt = b.createdAt /\ a.id < b.id

(* C11: the messages of a thread come back ascending by (createdAt, id):    *)
(* of two messages with the same createdAt the one with the smaller id      *)
(* comes first, whatever order the database gives rows of equal createdAt.  *)
C11_AscendingByTimestampAndId ==
  \A tb \in TieOrders, l \in Listings, a \in Users, b \in Users :
    a # b =>
      LET result == ConversationRoute(messages, a, ConversationKey(l, a, b), tb)
      IN \A i \in 1..Len(result), j \in 1..Len(result) :
           i < j => StampBefore(result[i], result[j])

(* C12: the last message of every listed conversation is the message of the *)
(* thread with the greatest (createdAt, id), in the server projection and   *)
(* in the conversations the chat page builds from GET /api/messages.        *)
C12_LastMessageIsMaximum ==
  \A u \in Users, tb \in TieOrders :
    /\ LET convs == getUserConversations(messages, u, tb)
       IN \A i \in 1..Len(convs) :
            \A m \in Thread(convs[i].propertyId, u, convs[i].otherUserId) :
              m = convs[i].lastMessage \/ StampBefore(m, convs[i].lastMessage)
    /\ LET chat == ChatConversations(getAllUserMessages(messages, u, tb), u)
       IN \A i \in 1..Len(chat) :
            chat[i].otherUserId # u =>
              \A m \in Thread(chat[i].propertyId, u, chat[i].otherUserId) :
                m = chat[i].lastMessage \/ StampBefore(m, chat[i].lastMessage)

(* C13: the conversations of a viewer come sorted by the (createdAt, id) of *)
(* their last message, descending: of two adjacent conversations the first  *)
(* has the later last message.                                              *)
C13_SortedByLastMessage ==
  \A u \in Users, tb \in TieOrders :
    LET convs == getUserConversations(messages, u, tb)
    IN \A i \in 1..(Len(convs) - 1) :
         StampBefore(convs[i + 1].lastMessage, convs[i].lastMessage)

(* C14: a successful POST /api/messages adds exactly one message to the     *)
(* store: it has a fresh id, read = false, the caller as sender, the body's *)
(* fields and the current time; every message stored before is unchanged.   *)
C14_SendAppendsOne ==
  [][\A u \in Users, body \in Bodies :
       (/\ PostMessage(MaxMsgs, u, body) \/ PostMessageGuarded(MaxMsgs, u, body)
        /\ resp' = 200)
       => \E n \in messages' :
            /\ n.id \notin {m.id : m \in messages}
            /\ ~n.read
            /\ n.senderId = u
            /\ n.propertyId = body.propertyId
            /\ n.receiverId = body.receiverId
            /\ n.content = body.content
            /\ n.createdAt = now'
            /\ messages' = messages \cup {n}]_vars

(* a message has been sent after an earlier one was marked read, and the    *)
(* earlier one is still read                                                *)
C14_Witness ==
  /\ resp = 200
  /\ \E m \in messages, n \in messages :
       /\ n.id = nextMsgId - 1
       /\ m.id < n.id
       /\ m.read
       /\ ~n.read
       /\ n.createdAt = now

(* C15: a POST /api/messages whose receiverId or propertyId names no        *)
(* existing user or listing is answered with an error status and stores     *)
(* nothing; every stored message references an existing listing, sender and *)
(* receiver.                                                                *)
C15_BadReferenceRejected ==
  /\ [](\A m \in messages : /\ m.propertyId \in {p.id : p \in properties}
                            /\ m.senderId \in users
                            /\ m.receiverId \in users)
  /\ [][\A u \in Users, body \in EdgeBodies :
          (/\ body.receiverId \notin users
              \/ body.propertyId \notin {p.id : p \in properties}
           /\ PostMessage(MaxMsgs, u, body) \/ PostMessageGuarded(MaxMsgs, u, body))
          => /\ resp' = 400
             /\ messages' = messages
             /\ nextMsgId' = nextMsgId]_vars

(* a send has just been answered 400 (in SpecEdge only a body with an       *)
(* unknown listing or receiver is) while the store holds an earlier message *)
C15_Witness ==
  /\ resp = 400
  /\ nextMsgId <= MaxMsgs
  /\ messages # {}

(* C16: a send with empty content is rejected on every creation path, so    *)
(* every stored message has non-empty content.                              *)
C16_ContentNonEmpty ==
  \A m \in messages : m.content # ""

(* C17: PUT /api/messages/:id/read answers with a success status only when  *)
(* the message exists and the caller is its receiver; for a message that    *)
(* does not exist, or a caller who is not the receiver, the status is not   *)
(* the success status and the store is unchanged.                           *)
C17_MarkReadReportsOutcome ==
  [][\A u \in Registered, id \in 1..nextMsgId :
       PutMessageRead(u, id) =>
         IF \E m \in messages : m.id = id /\ m.receiverId = u
           THEN resp' = 200
           ELSE resp' # 200 /\ messages' = messages]_vars

(* C18: the server projections leave self-messages out: no conversation of  *)
(* viewer u has u as the other user, no conversation has a self-message as  *)
(* its last message or counts one as unread, and the thread query returns   *)
(* no self-message, not even when asked for the thread of u with u.         *)
C18_SelfMessagesExcluded ==
  \A u \in users, tb \in TieOrders :
    /\ LET convs == getUserConversations(messages, u, tb)
       IN \A i \in 1..Len(convs) :
            /\ convs[i].otherUserId # u
            /\ convs[i].lastMessage.senderId # convs[i].lastMessage.receiverId
            /\ convs[i].unreadCount =
                 Cardinality({m \in messages :
                                /\ m.propertyId = convs[i].propertyId
                                /\ m.senderId = convs[i].otherUserId
                                /\ m.receiverId = u
                                /\ ~m.read})
    /\ \A l \in {m.propertyId : m \in messages}, other \in users :
         \A m \in Range(getConversationMessages(messages, l, u, other,
                                                1, DefaultLimit, tb)) :
           m.senderId # m.receiverId

(* a viewer with an unread message to themself about a listing and a        *)
(* conversation about the same listing that counts nothing unread           *)
C18_Witness ==
  \E u \in users :
    /\ \E m \in messages : m.senderId = u /\ m.receiverId = u /\ ~m.read
    /\ LET convs == getUserConversations(messages, u, "asc")
       IN /\ Len(convs) = 1
          /\ convs[1].unreadCount = 0
          /\ \E m \in messages :
               /\ m.senderId = u /\ m.receiverId = u
               /\ m.propertyId = convs[1].propertyId

(* C19: the senderId of every message is the identity of the caller who     *)
(* created it: over HTTP the logged-in user, whatever senderId the body     *)
(* carries; over the socket the user at the browser that holds the socket.  *)
C19_SenderIsCaller ==
  [][/\ \A u \in Users, body \in Bodies \cup EmptyBodies \cup ForgedBodies :
          PostMessage(MaxMsgs, u, body)
            => \A n \in messages' \ messages : n.senderId = u
     /\ \A u \in Users, body \in Bodies :
          PostMessageGuarded(MaxMsgs, u, body)
            => \A n \in messages' \ messages : n.senderId = u
     /\ \A s \in Sockets, body \in Bodies \cup EmptyBodies :
          WsSendMessage(MaxMsgs, s, body)
            => \A n \in messages' \ messages : n.senderId = SocketClient(s)]_vars

(* C20: every message a GET route returns to caller u has u as sender or as *)
(* receiver: GET /api/messages, GET /api/messages/conversations, GET        *)
(* /api/properties/:id/messages, and GET /api/messages/:conversationId for  *)
(* any conversation id, one that names two other users included.            *)
C20_ReadsConfinedToParticipants ==
  \A u \in users, tb \in TieOrders :
    /\ \A m \in Range(getAllUserMessages(messages, u, tb)) :
         m.senderId = u \/ m.receiverId = u
    /\ LET convs == getUserConversations(messages, u, tb)
       IN \A i \in 1..Len(convs) :
            convs[i].lastMessage.senderId = u \/ convs[i].lastMessage.receiverId = u
    /\ \A l \in Listings :
         \A m \in Range(getPropertyMessages(messages, l, u, tb)) :
           m.senderId = u \/ m.receiverId = u
    /\ \A parts \in EdgeIds :
         \A m \in Range(ConversationRoute(messages, u, parts, tb)) :
           m.senderId = u \/ m.receiverId = u

(* users 1 and 2 have a thread of two messages; a third user asks for it by *)
(* its id and for everything else, and gets no message                      *)
C20_Witness ==
  /\ resp = 200
  /\ Len(ConversationRoute(messages, 1, <<1, 1, 2>>, "asc")) = MaxMsgs
  /\ ConversationRoute(messages, Outsider, <<1, 1, 2>>, "asc") = <<>>
  /\ getAllUserMessages(messages, Outsider, "asc") = <<>>
  /\ getUserConversations(messages, Outsider, "asc") = <<>>
  /\ getPropertyMessages(messages, 1, Outsider, "asc") = <<>>

(* C21: a listing that has been deleted has no stored message and no        *)
(* conversation in any viewer's list; and a conversation is in the list of  *)
(* both its participants as long as one of its messages is stored, so that  *)
(* it leaves a list only when all its messages have been deleted.           *)
C21_DeletedListingHasNoMessages ==
  /\ \A l \in Listings \ {p.id : p \in properties} :
       /\ \A m \in messages : m.propertyId # l
       /\ \A v \in Users, tb \in TieOrders :
            LET convs == getUserConversations(messages, v, tb)
            IN \A i \in 1..Len(convs) : convs[i].propertyId # l
  /\ \A m \in messages :
       m.senderId # m.receiverId =>
         \A v \in {m.senderId, m.receiverId}, tb \in TieOrders :
           LET convs == getUserConversations(messages, v, tb)
           IN \E i \in 1..Len(convs) :
                convs[i].id = ConversationKey(m.propertyId, m.senderId, m.receiverId)

(* the owner's deleteProperty has just succeeded for a listing that had a   *)
(* message, while a message about the other listing is still stored         *)
C21_Witness ==
  /\ resp = 200
  /\ deleting = {}
  /\ Cardinality(properties) = 1
  /\ Cardinality(messages) = 1
  /\ nextMsgId = MaxMsgs + 1
  /\ Len(getUserConversations(messages, 1, "asc")) = 1

(* the unread count of viewer v for the thread with key, 0 if not listed *)
UnreadOf(convs, key) ==
  IF IndexOfKey(convs, key) = 0 THEN 0 ELSE convs[IndexOfKey(convs, key)].unreadCount

(* C22: after a successful send from a to b (a # b) about listing l, the    *)
(* conversation list of b has exactly one entry for l with other user a;    *)
(* its last message is the new message and its unread count is one more     *)
(* than before; a's unread count for the thread is unchanged.               *)
C22_SendUpdatesReceiverList ==
  [][\A n \in messages' :
       (n.id \notin {m.id : m \in messages} /\ n.senderId # n.receiverId) =>
         \A tb \in TieOrders :
           LET key == ConversationKey(n.propertyId, n.senderId, n.receiverId)
               before == getUserConversations(messages, n.receiverId, tb)
               after == getUserConversations(messages', n.receiverId, tb)
               entries == {i \in 1..Len(after) :
                             /\ after[i].propertyId = n.propertyId
                             /\ after[i].otherUserId = n.senderId}
           IN /\ Cardinality(entries) = 1
              /\ \A i \in entries :
                   /\ after[i].lastMessage = n
                   /\ after[i].unreadCount = UnreadOf(before, key) + 1
              /\ UnreadOf(getUserConversations(messages', n.senderId, tb), key)
                   = UnreadOf(getUserConversations(messages, n.senderId, tb), key)]_vars

(* message id i is in the polled data of both its participants *)
InBothViews(i) ==
  \E m \in messages :
    /\ m.id = i
    /\ \A u \in {m.senderId, m.receiverId} :
         \E k \in 1..Len(chatMessages[u]) : chatMessages[u][k].id = i

C24_ChatPageExcludesSelf ==
  \A u \in Users, tb \in TieOrders :
    LET chat == ChatConversations(getAllUserMessages(messages, u, tb), u)
    IN \A i \in 1..Len(chat) : chat[i].otherUserId # u

(* C25: the new_message push of a message goes out for a stored message     *)
(* only, and only to sockets whose authenticated user is the sender or the  *)
(* receiver of the message, whatever authenticate, send_message and         *)
(* disconnect events came before.                                           *)
C25_PushOnlyToParticipants ==
  [][\A s \in PushSockets, body \in PushBodies :
       WsSendMessage(MaxExtra, s, body) =>
         \A n \in messages' :
           n.id \notin {m.id : m \in messages} =>
             \A r \in NewMessageRecipients(rooms, n) :
               userSessions[r] \in {n.senderId, n.receiverId}]_vars

(* C26: deleteProperty called by a user who does not own the listing leaves *)
(* the store as it is: the messages of the listing stay, the listing stays, *)
(* and the caller is told 404.                                              *)
C26_NonOwnerDeleteChangesNothing ==
  [][\A u \in Users, id \in Listings :
       (\A p \in properties : p.id = id => p.userId # u) =>
         /\ DeletePropertyBegin(u, id) => messages' = messages
         /\ DeletePropertyEnd(u, id) => /\ properties' = properties
                                        /\ messages' = messages
                                        /\ resp' = 404]_vars

(* C27: an owner's deleteProperty interleaved with sends about the listing  *)
(* is all-or-nothing: when the call ends, either the listing and every      *)
(* message about it are gone, or the listing is there together with all the *)
(* messages that were stored when the call began.                           *)
C27_DeleteAllOrNothing ==
  [][\A d \in deleting :
       (/\ \E p \in properties : p.id = d.id /\ p.userId = d.userId
        /\ DeletePropertyEnd(d.userId, d.id))
       => \/ /\ d.id \notin {p.id : p \in properties'}
             /\ \A m \in messages' : m.propertyId # d.id
          \/ /\ d.id \in {p.id : p \in properties'}
             /\ d.removed = {}]_vars

(* C28: updateProperty and deleteProperty by a user who does not own the    *)
(* listing leave the listing rows unchanged and are answered 404, and the   *)
(* userId of a listing never changes.                                       *)
C28_OnlyOwnerChangesListing ==
  [][/\ \A u \in Users, id \in Listings :
          (\A p \in properties : p.id = id => p.userId # u) =>
            /\ \A data \in UpdateBodies :
                 UpdateProperty(u, id, data) => properties' = properties /\ resp' = 404
            /\ DeletePropertyEnd(u, id) => properties' = properties /\ resp' = 404
     /\ \A p \in properties, q \in properties' : q.id = p.id => q.userId = p.userId]_vars

(* a call has just been answered 404 while both listings exist, one of them *)
(* changed by its owner before                                              *)
C28_Witness ==
  /\ resp = 404
  /\ deleting = {}
  /\ {p.id : p \in properties} = Listings
  /\ \E p \in properties : p.price = 0 /\ ~p.available

(* C29: every listing that getProperties(search) returns is available and   *)
(* meets every bound search carries: minPrice <= price <= maxPrice,         *)
(* minRooms <= rooms <= maxRooms, type equal; bounds of 0 included.         *)
C29_SearchResultsMeetFilters ==
  \A search \in Searches :
    \A p \in getProperties(properties, search) :
      /\ p.available
      /\ search.type # None => p.type = search.type[1]
      /\ search.minPrice # None => p.price >= search.minPrice[1]
      /\ search.maxPrice # None => p.price <= search.maxPrice[1]
      /\ search.minRooms # None => p.rooms >= search.minRooms[1]
      /\ search.maxRooms # None => p.rooms <= search.maxRooms[1]

(* C30: no two users have the same email, and of the register requests that *)
(* carry one email at most one creates a user and holds a session for it,   *)
(* whatever the interleaving of the requests.                               *)
C30_EmailsUnique ==
  /\ \A u \in users, v \in users : emails[u] = emails[v] => u = v
  /\ \A r \in Requests, q \in Requests :
       (/\ regs[r].pc = "done"
        /\ regs[q].pc = "done"
        /\ regs[r].email = regs[q].email) => r = q
  /\ \A r \in Requests :
       regs[r].pc = "done" => regs[r].userId \in users /\ emails[regs[r].userId] = regs[r].email
  /\ \A r \in Requests : regs[r].pc # "done" => regs[r].userId = 0

(* two requests with one new email both passed the lookup; one created the  *)
(* user and the other failed on the insert                                  *)
C30_Witness ==
  \E r \in Requests, q \in Requests :
    /\ regs[r].pc = "done"
    /\ regs[q].pc = "failed"
    /\ regs[r].email = regs[q].email
====
